---- MODULE Spec2Model ----
(***************************************************************************)
(* Model of src/HttpClient.ts: a MediaWiki action-API client.              *)
(*                                                                         *)
(* Strings are sequences of one-character strings, so that String(),       *)
(* join(), concat(), includes() and the template literals are computed.    *)
(* US stands for the character U+001F and LF for the newline U+000A.       *)
(***************************************************************************)
EXTENDS Integers, Sequences, FiniteSets, TLC

VARIABLES
    file,      \* the package.json next to the module, as the file system holds it
    client,    \* the HttpClient instance: construction status, endpoint, User-Agent
    calls,     \* one record per get/post/query invocation
    console,   \* what console.warn has written, in order
    input,     \* createSearchParams: the parameter mapping under serialization
    output,    \* createSearchParams: the URLSearchParams it returned
    phase      \* createSearchParams: "input" before the call, "done" after

vars == <<file, client, calls, console, input, output, phase>>

\* ------------------------------------------------------------------ bounds
MaxArr == 2        \* longest array value of a parameter
MaxKeys == 2       \* most keys in a caller's parameter mapping
MaxEntries == 2    \* longest warnings / errors sequence of an envelope
MaxCalls == 2      \* most calls in flight on one client

\* ------------------------------------------------------------- characters
US == "<US>"
LF == "<LF>"
PIPE == "|"

\* ------------------------------------------------------- JavaScript values
\* Primitive = string | number | boolean | Date | null | undefined   (line 9)
\* A Date holds a time value t; it is kept as Day(t) in n and TimeWithinDay(t) in m.
Prim(t, s, n, m, b) == [t |-> t, s |-> s, n |-> n, m |-> m, b |-> b]
PStr(s) == Prim("string", s, 0, 0, FALSE)
PNum(n) == Prim("number", <<>>, n, 0, FALSE)
PBool(b) == Prim("boolean", <<>>, 0, 0, b)
PDate(day, ms) == Prim("date", <<>>, day, ms, FALSE)
PNull == Prim("null", <<>>, 0, 0, FALSE)
PUndef == Prim("undefined", <<>>, 0, 0, FALSE)

\* Primitive | Primitive[]: a scalar is isArray = FALSE with one item.
Scalar(p) == [isArray |-> FALSE, items |-> <<p>>]
Array(ps) == [isArray |-> TRUE, items |-> ps]

\* ------------------------------------------------------ String(), Date ISO
DigitChar(d) == <<"0", "1", "2", "3", "4", "5", "6", "7", "8", "9">>[d + 1]

RECURSIVE Digits(_)
Digits(n) == IF n < 10 THEN <<DigitChar(n)>> ELSE Append(Digits(n \div 10), DigitChar(n % 10))

\* Number.prototype.toString for an integer
NumberToString(n) == IF n < 0 THEN <<"-">> \o Digits(0 - n) ELSE Digits(n)

RECURSIVE PadStart(_, _)
PadStart(s, w) == IF Len(s) >= w THEN s ELSE PadStart(<<"0">> \o s, w)

\* the proleptic Gregorian date of a day number (days since 1970-01-01)
CivilFromDays(day) ==
    LET z == day + 719468
        era == z \div 146097
        doe == z - era * 146097
        yoe == (doe - doe \div 1460 + doe \div 36524 - doe \div 146096) \div 365
        doy == doe - (365 * yoe + yoe \div 4 - yoe \div 100)
        mp == (5 * doy + 2) \div 153
        d == doy - (153 * mp + 2) \div 5 + 1
        mo == IF mp < 10 THEN mp + 3 ELSE mp - 9
        y == yoe + era * 400 + (IF mo <= 2 THEN 1 ELSE 0)
    IN [year |-> y, month |-> mo, date |-> d]

\* Date.prototype.toISOString: YYYY-MM-DDTHH:mm:ss.sssZ
toISOString(day, ms) ==
    LET c == CivilFromDays(day)
        hh == ms \div 3600000
        mi == (ms % 3600000) \div 60000
        ss == (ms % 60000) \div 1000
        ml == ms % 1000
    IN PadStart(Digits(c.year), 4) \o <<"-">> \o PadStart(Digits(c.month), 2) \o <<"-">>
         \o PadStart(Digits(c.date), 2) \o <<"T">> \o PadStart(Digits(hh), 2) \o <<":">>
         \o PadStart(Digits(mi), 2) \o <<":">> \o PadStart(Digits(ss), 2) \o <<".">>
         \o PadStart(Digits(ml), 3) \o <<"Z">>

\* String(value) for a Primitive
String(p) ==
    CASE p.t = "string" -> p.s
      [] p.t = "number" -> NumberToString(p.n)
      [] p.t = "boolean" -> IF p.b THEN <<"t", "r", "u", "e">> ELSE <<"f", "a", "l", "s", "e">>
      [] p.t = "date" -> toISOString(p.n, p.m)
      [] p.t = "null" -> <<"n", "u", "l", "l">>
      [] p.t = "undefined" -> <<"u", "n", "d", "e", "f", "i", "n", "e", "d">>

\* ---------------------------------------------------------------- toValues
includes(s, ch) == \E i \in 1..Len(s) : s[i] = ch

RECURSIVE join(_, _)
join(strings, sep) ==
    IF strings = <<>> THEN <<>>
    ELSE IF Len(strings) = 1 THEN strings[1]
    ELSE strings[1] \o <<sep>> \o join(Tail(strings), sep)

\* mutant: the separator is chosen by looking at the first element alone
toValuesFirstOnly(isArray, strings) ==
    IF isArray
    THEN IF Len(strings) > 0 /\ includes(strings[1], PIPE)
         THEN <<US>> \o join(strings, US)
         ELSE join(strings, PIPE)
    ELSE IF includes(strings[1], PIPE) THEN <<US>> \o strings[1] ELSE strings[1]

\* toValues(values), lines 56-65; values arrive converted: isArray and the strings
toValues(isArray, strings) ==
    IF isArray
    THEN IF \E i \in 1..Len(strings) : includes(strings[i], PIPE)
         THEN <<US>> \o join(strings, US)
         ELSE join(strings, PIPE)
    ELSE IF includes(strings[1], PIPE) THEN <<US>> \o strings[1] ELSE strings[1]

\* ------------------------------------------------------ createSearchParams
\* the local function convert, lines 69-73
convert(p) ==
    IF p.t = "boolean" THEN <<>>
    ELSE IF p.t = "date" THEN toISOString(p.n, p.m)
    ELSE String(p)

\* mutant: the guard forgets the boolean false
skippedNullOnly(value) == ~value.isArray /\ value.items[1].t \in {"null", "undefined"}

\* the guard of line 76: value == null || value === false
skipped(value) ==
    /\ ~value.isArray
    /\ \/ value.items[1].t \in {"null", "undefined"}
       \/ value.items[1].t = "boolean" /\ ~value.items[1].b

\* URLSearchParams is the list of its name/value pairs.
RECURSIVE dropKey(_, _)
dropKey(search, k) ==
    IF search = <<>> THEN <<>>
    ELSE IF Head(search).key = k THEN dropKey(Tail(search), k)
    ELSE <<Head(search)>> \o dropKey(Tail(search), k)

\* URLSearchParams.set: the first pair named k takes the value and the other
\* pairs named k are removed; without such a pair one is appended.
RECURSIVE searchSet(_, _, _)
searchSet(search, k, v) ==
    IF search = <<>> THEN <<[key |-> k, value |-> v]>>
    ELSE IF Head(search).key = k THEN <<[key |-> k, value |-> v]>> \o dropKey(Tail(search), k)
    ELSE <<Head(search)>> \o searchSet(Tail(search), k, v)

\* the body of the for-in loop, lines 75-78
setParam(search, entry) ==
    IF skipped(entry.value) THEN search
    ELSE searchSet(search, entry.key,
                   toValues(entry.value.isArray,
                            [i \in 1..Len(entry.value.items) |-> convert(entry.value.items[i])]))

RECURSIVE forIn(_, _)
forIn(search, params) ==
    IF params = <<>> THEN search
    ELSE forIn(setParam(search, Head(params)), Tail(params))

\* mutant: the reserved keys are appended instead of set
setReservedByAppend(search) ==
    search \o <<[key |-> "format", value |-> <<"j", "s", "o", "n">>],
                [key |-> "formatversion", value |-> <<"2">>],
                [key |-> "errorformat", value |-> <<"p", "l", "a", "i", "n", "t", "e", "x", "t">>]>>

\* lines 80-82
setReserved(search) ==
    searchSet(searchSet(searchSet(search, "format", <<"j", "s", "o", "n">>),
                        "formatversion", <<"2">>),
              "errorformat", <<"p", "l", "a", "i", "n", "t", "e", "x", "t">>)

\* createSearchParams(params), lines 67-84; params is the mapping in key order
createSearchParams(params) == setReserved(forIn(<<>>, params))

\* ------------------------------------------------------------ getUserAgent
\* package.json as the file system holds it: whether the path exists, whether
\* readFileSync can read it, whether JSON.parse accepts the text, and the
\* fields of the parsed object that line 51 reads.
PackageFile(exists, readable, parses, hasVersion, version, hasDependencies, hasGot, gotRange) ==
    [exists |-> exists, readable |-> readable, parses |-> parses,
     hasVersion |-> hasVersion, version |-> version,
     hasDependencies |-> hasDependencies, hasGot |-> hasGot, gotRange |-> gotRange]

\* String.prototype.replace(pattern, '') with a string pattern: the first occurrence only
RECURSIVE replaceFirst(_, _)
replaceFirst(s, ch) ==
    IF s = <<>> THEN <<>>
    ELSE IF Head(s) = ch THEN Tail(s)
    ELSE <<Head(s)>> \o replaceFirst(Tail(s), ch)

DefaultUserAgent ==
    <<"H", "u", "i", "j", "i", "M", "W", "C", "l", "i", "e", "n", "t", "/",
      "U", "n", "k", "n", "o", "w", "n">>

\* getUserAgent(), lines 46-54: the string returned, or the exception thrown
getUserAgent(f) ==
    IF ~f.exists THEN [threw |-> FALSE, value |-> DefaultUserAgent]
    ELSE IF ~f.readable THEN [threw |-> TRUE, value |-> <<>>]       \* readFileSync throws
    ELSE IF ~f.parses THEN [threw |-> TRUE, value |-> <<>>]         \* JSON.parse throws
    ELSE IF ~f.hasDependencies \/ ~f.hasGot THEN [threw |-> TRUE, value |-> <<>>]  \* TypeError
    ELSE [threw |-> FALSE,
          value |-> <<"H", "u", "i", "j", "i", "M", "W", "C", "l", "i", "e", "n", "t", "/">>
                    \o (IF f.hasVersion THEN f.version ELSE String(PUndef))
                    \o <<" ", "G", "o", "t", "/">> \o replaceFirst(f.gotRange, "^")]

NoClient == [status |-> "none", endpoint |-> "", userAgent |-> <<>>]

\* new HttpClient(endpoint), lines 39-44
constructor(endpoint, f) ==
    LET ua == getUserAgent(f)
    IN IF ua.threw THEN [status |-> "threw", endpoint |-> "", userAgent |-> <<>>]
       ELSE [status |-> "ok", endpoint |-> endpoint, userAgent |-> ua.value]

\* ------------------------------------------------------- response envelope
\* MediaWikiError, lines 12-16
Entry(module, code, text) == [module |-> module, code |-> code, text |-> text]
NoEntry == Entry(<<>>, <<>>, <<>>)

\* MediaWikiResponseBody / QueryResponseBody, lines 25-34.  errors is absent,
\* one object, or an array; warnings is absent or an array.
Body(hasWarnings, warnings, errorsShape, errorObject, errorList, hasQuery, query) ==
    [warnings |-> [present |-> hasWarnings, list |-> warnings],
     errors |-> [shape |-> errorsShape, object |-> errorObject, list |-> errorList],
     query |-> [present |-> hasQuery, value |-> query]]
NoBody == Body(FALSE, <<>>, "absent", NoEntry, <<>>, FALSE, "undefined")

\* the template literal of lines 88 and 93
template(e) == <<"[">> \o e.module \o <<"]", " ">> \o e.code \o <<":", " ">> \o e.text

\* mutant: the warnings are written last to first
checkWarningsReversed(warnings) ==
    IF ~warnings.present THEN <<>>
    ELSE [i \in 1..Len(warnings.list) |->
            [level |-> "warn", style |-> "yellow",
             text |-> template(warnings.list[Len(warnings.list) + 1 - i])]]

\* checkWarnings(warnings), lines 86-89: the console.warn calls it makes
checkWarnings(warnings) ==
    IF ~warnings.present THEN <<>>
    ELSE [i \in 1..Len(warnings.list) |->
            [level |-> "warn", style |-> "yellow", text |-> template(warnings.list[i])]]

\* mutant: a single errors object is not wrapped into an array
checkErrorsUnwrapped(errors) ==
    IF errors.shape = "absent" THEN [threw |-> FALSE, message |-> <<>>]
    ELSE [threw |-> TRUE,
          message |-> join([i \in 1..Len(errors.list) |-> template(errors.list[i])], LF)]

\* checkErrors(errors), lines 91-95: whether it throws, and the Error's message
checkErrors(errors) ==
    IF errors.shape = "absent" THEN [threw |-> FALSE, message |-> <<>>]
    ELSE LET list == IF errors.shape = "array" THEN errors.list ELSE <<errors.object>>
         IN [threw |-> TRUE,
             message |-> join([i \in 1..Len(list) |-> template(list[i])], LF)]

\* ------------------------------------------------------- get, post, query
NoResult == [tag |-> "none", body |-> NoBody, payload |-> "undefined"]
NoCall ==
    [pc |-> "idle", kind |-> "none", params |-> <<>>, sent |-> <<>>,
     received |-> FALSE, response |-> NoBody,
     result |-> NoResult, message |-> <<>>, logged |-> <<>>]

Request(method, c, searchParams, form) ==
    [method |-> method, url |-> c.endpoint, userAgent |-> c.userAgent,
     searchParams |-> searchParams, form |-> form]

\* assignment to an object property: an existing key keeps its place
RECURSIVE assign(_, _, _)
assign(obj, k, v) ==
    IF obj = <<>> THEN <<[key |-> k, value |-> v]>>
    ELSE IF Head(obj).key = k THEN <<[key |-> k, value |-> v]>> \o Tail(obj)
    ELSE <<Head(obj)>> \o assign(Tail(obj), k, v)

\* Object.fromEntries(search.entries()), line 105
RECURSIVE fromEntries(_, _)
fromEntries(obj, entries) ==
    IF entries = <<>> THEN obj
    ELSE fromEntries(assign(obj, Head(entries).key, Head(entries).value), Tail(entries))

\* the request line 98 hands to got
getRequest(c, params) == Request("GET", c, createSearchParams(params), <<>>)

\* mutant: the form is built before the reserved keys are set
postRequestUnreserved(c, params) == Request("POST", c, <<>>, fromEntries(<<>>, forIn(<<>>, params)))

\* the request line 105 hands to got
postRequest(c, params) == Request("POST", c, <<>>, fromEntries(<<>>, createSearchParams(params)))

\* mutant: { action: 'query', ...params }, the caller's action wins
withCallerAction(params) ==
    IF \E i \in 1..Len(params) : params[i].key = "action" THEN params
    ELSE <<[key |-> "action", value |-> Scalar(PStr(<<"q", "u", "e", "r", "y">>))]>> \o params

\* { ...params, action: 'query' }, line 112
withActionQuery(params) == assign(params, "action", Scalar(PStr(<<"q", "u", "e", "r", "y">>)))

\* the request a call of the given kind sends before it suspends
requestOf(kind, c, params) ==
    CASE kind = "get" -> getRequest(c, params)
      [] kind = "post" -> postRequest(c, params)
      [] kind = "query" -> getRequest(c, withActionQuery(params))

\* lines 99-101 / 106-108 / 113: what the call does once the body is parsed
settle(call, body) ==
    LET lines == checkWarnings(body.warnings)
        err == checkErrors(body.errors)
    IN IF err.threw
       THEN [call EXCEPT !.pc = "rejected", !.received = TRUE, !.response = body,
                         !.message = err.message, !.logged = lines]
       ELSE [call EXCEPT !.pc = "fulfilled", !.received = TRUE, !.response = body,
                         !.logged = lines,
                         !.result = IF call.kind = "query"
                                    THEN [tag |-> "payload", body |-> NoBody,
                                          payload |-> IF body.query.present
                                                      THEN body.query.value ELSE "undefined"]
                                    ELSE [tag |-> "body", body |-> body, payload |-> "undefined"]]

\* mutant: an error response fails every call that is in flight
resumeShared(cs, c, body) ==
    [d \in DOMAIN cs |->
        IF d = c THEN settle(cs[c], body)
        ELSE IF checkErrors(body.errors).threw /\ cs[d].pc = "awaiting"
             THEN [cs[d] EXCEPT !.pc = "rejected", !.message = checkErrors(body.errors).message]
             ELSE cs[d]]

\* the promises of the client after call c resumes with the parsed body
resume(cs, c, body) == [cs EXCEPT ![c] = settle(cs[c], body)]

\* the await of lines 98 / 105 rejects: got's error propagates unchanged
TransportError == <<"R", "e", "q", "u", "e", "s", "t", "E", "r", "r", "o", "r">>
reject(call) == [call EXCEPT !.pc = "rejected", !.message = TransportError]

\* ------------------------------------------------------------ input sets
SeqsUpTo(S, n) == UNION {[1..k -> S] : k \in 0..n}

\* 2000-02-29T12:34:56.789Z
LeapDay == PDate(11016, 45296789)

ElemPrims ==
    {PStr(<<"a">>), PStr(<<"a", "|", "b">>), PNum(0 - 12), PBool(TRUE), PBool(FALSE),
     LeapDay, PNull, PUndef}
ScalarPrims == ElemPrims \cup {PStr(<<>>), PNum(0)}
Values == {Scalar(p) : p \in ScalarPrims} \cup {Array(a) : a \in SeqsUpTo(ElemPrims, MaxArr)}

SerKeys == {"titles", "format", "formatversion", "errorformat"}
ReservedKeys == {"format", "formatversion", "errorformat"}

\* the values a caller passes under each key
KeyDomain(k) ==
    CASE k = "titles" -> Values
      [] k = "format" -> {Scalar(PStr(<<"x", "m", "l">>))}
      [] k = "formatversion" -> {Scalar(PNum(1))}
      [] k = "errorformat" -> {Array(<<PStr(<<"h", "t", "m", "l">>), PStr(<<"r", "a", "w">>)>>)}

KeySeqs == {ks \in SeqsUpTo(SerKeys, MaxKeys) : \A i, j \in 1..Len(ks) : i # j => ks[i] # ks[j]}

RECURSIVE Fill(_)
Fill(ks) ==
    IF ks = <<>> THEN {<<>>}
    ELSE {<<[key |-> Head(ks), value |-> v]>> \o rest : v \in KeyDomain(Head(ks)), rest \in Fill(Tail(ks))}

\* the parameter mappings createSearchParams is applied to, in key order
Mappings == UNION {Fill(ks) : ks \in KeySeqs}

Param(k, v) == [key |-> k, value |-> v]
Foo == Scalar(PStr(<<"f", "o", "o">>))

\* the parameter mappings of the calls
ParamsIgnored == <<Param("action", Scalar(PStr(<<"i", "g", "n", "o", "r", "e", "d">>))), Param("list", Foo)>>
ParamsReserved ==
    <<Param("titles", Array(<<PStr(<<"a", "|", "b">>), PStr(<<"a">>)>>)),
      Param("format", Scalar(PStr(<<"x", "m", "l">>))),
      Param("action", Scalar(PStr(<<"p", "a", "r", "s", "e">>)))>>
ParamsNoAction == <<Param("list", Foo), Param("redirects", Scalar(PBool(TRUE)))>>
ParamsNullAction == <<Param("action", Scalar(PNull)), Param("redirects", Scalar(PBool(FALSE)))>>
CallParams == {ParamsIgnored, ParamsReserved, ParamsNoAction, ParamsNullAction}
FewParams == {ParamsIgnored, ParamsReserved}

EntryA == Entry(<<"m">>, <<"c", "1">>, <<"t">>)
EntryB == Entry(<<"q">>, <<"c", "2">>, <<"u", " ", "v">>)
EntrySeqs == SeqsUpTo({EntryA, EntryB}, MaxEntries)

\* the response envelopes of a single call
Envelopes ==
    {Body(FALSE, <<>>, "absent", NoEntry, <<>>, hq, IF hq THEN "pages" ELSE "undefined") : hq \in BOOLEAN}
    \cup {Body(TRUE, w, "absent", NoEntry, <<>>, hq, IF hq THEN "pages" ELSE "undefined") :
            w \in EntrySeqs, hq \in BOOLEAN}
    \cup {Body(FALSE, <<>>, "object", e, <<>>, FALSE, "undefined") : e \in {EntryA, EntryB}}
    \cup {Body(FALSE, <<>>, "array", NoEntry, es, hq, IF hq THEN "pages" ELSE "undefined") :
            es \in EntrySeqs, hq \in BOOLEAN}
    \cup {Body(TRUE, w, "object", e, <<>>, FALSE, "undefined") : w \in EntrySeqs, e \in {EntryA, EntryB}}
    \cup {Body(TRUE, w, "array", NoEntry, es, FALSE, "undefined") : w \in EntrySeqs, es \in EntrySeqs}

\* the response envelopes of concurrent calls
FewEnvelopes ==
    {Body(FALSE, <<>>, "absent", NoEntry, <<>>, TRUE, "pages"),
     Body(TRUE, <<EntryA, EntryB>>, "absent", NoEntry, <<>>, FALSE, "undefined"),
     Body(TRUE, <<EntryB>>, "array", NoEntry, <<EntryB, EntryA>>, FALSE, "undefined")}

Version == <<"1", ".", "0", ".", "2">>
GotRange == <<"^", "1", "1", ".", "8", ".", "5">>
Missing == PackageFile(FALSE, FALSE, FALSE, FALSE, <<>>, FALSE, FALSE, <<>>)
Unreadable == PackageFile(TRUE, FALSE, FALSE, FALSE, <<>>, FALSE, FALSE, <<>>)
Unparsable == PackageFile(TRUE, TRUE, FALSE, FALSE, <<>>, FALSE, FALSE, <<>>)
NoDependencies == PackageFile(TRUE, TRUE, TRUE, TRUE, Version, FALSE, FALSE, <<>>)
NoGot == PackageFile(TRUE, TRUE, TRUE, TRUE, Version, TRUE, FALSE, <<>>)
NoVersion == PackageFile(TRUE, TRUE, TRUE, FALSE, <<>>, TRUE, TRUE, GotRange)
Valid == PackageFile(TRUE, TRUE, TRUE, TRUE, Version, TRUE, TRUE, GotRange)
Files == {Missing, Unreadable, Unparsable, NoDependencies, NoGot, NoVersion, Valid}

Endpoint == "https://wiki.example/api.php"
CallIds == 1..MaxCalls

\* ----------------------------------------------------------------- actions
\* new HttpClient(endpoint)
Construct(endpoint) ==
    /\ phase = "off"
    /\ client.status = "none"
    /\ client' = constructor(endpoint, file)
    /\ UNCHANGED <<file, calls, console, input, output, phase>>

\* a call runs up to its await: the request is handed to got (calls are
\* numbered in the order they are made)
Issue(kind, c, params) ==
    /\ client.status = "ok"
    /\ calls[c].pc = "idle"
    /\ \A d \in CallIds : d < c => calls[d].pc # "idle"
    /\ calls' = [calls EXCEPT ![c] = [@ EXCEPT !.pc = "awaiting", !.kind = kind, !.params = params,
                                                !.sent = <<requestOf(kind, client, params)>>]]
    /\ UNCHANGED <<file, client, console, input, output, phase>>

Get(c, params) == Issue("get", c, params)
Post(c, params) == Issue("post", c, params)
Query(c, params) == Issue("query", c, params)

\* the response of call c arrives and parses to body: the call resumes
Respond(c, body) ==
    /\ calls[c].pc = "awaiting"
    /\ console' = console \o checkWarnings(body.warnings)
    /\ calls' = resume(calls, c, body)
    /\ UNCHANGED <<file, client, input, output, phase>>

\* the transport fails (network error, non-2xx status, unparsable JSON)
TransportFailure(c) ==
    /\ calls[c].pc = "awaiting"
    /\ calls' = [calls EXCEPT ![c] = reject(@)]
    /\ UNCHANGED <<file, client, console, input, output, phase>>

\* createSearchParams applied to the mapping
Serialize ==
    /\ phase = "input"
    /\ output' = createSearchParams(input)
    /\ phase' = "done"
    /\ UNCHANGED <<file, client, calls, console, input>>

\* ---------------------------------------------------------- specifications
\* the client from construction on, with calls in flight together
Init ==
    /\ file \in Files
    /\ client = NoClient
    /\ calls = [c \in CallIds |-> NoCall]
    /\ console = <<>>
    /\ input = <<>>
    /\ output = <<>>
    /\ phase = "off"

Next ==
    \/ Construct(Endpoint)
    \/ \E c \in CallIds, p \in FewParams : Get(c, p)
    \/ \E c \in CallIds, p \in FewParams : Post(c, p)
    \/ \E c \in CallIds, p \in FewParams : Query(c, p)
    \/ \E c \in CallIds, b \in FewEnvelopes : Respond(c, b)
    \/ \E c \in CallIds : TransportFailure(c)

Spec == Init /\ [][Next]_vars

\* one call on a constructed client, over every envelope
InitCall ==
    /\ file \in {Missing, Valid}
    /\ client = constructor(Endpoint, file)
    /\ calls = [c \in CallIds |-> NoCall]
    /\ console = <<>>
    /\ input = <<>>
    /\ output = <<>>
    /\ phase = "off"

NextCall ==
    \/ \E p \in CallParams : Get(1, p)
    \/ \E p \in CallParams : Post(1, p)
    \/ \E p \in CallParams : Query(1, p)
    \/ \E b \in Envelopes : Respond(1, b)
    \/ TransportFailure(1)

SpecCall == InitCall /\ [][NextCall]_vars

\* createSearchParams as a function of the parameter mapping
InitSer ==
    /\ file = Missing
    /\ client = NoClient
    /\ calls = [c \in CallIds |-> NoCall]
    /\ console = <<>>
    /\ input \in Mappings
    /\ output = <<>>
    /\ phase = "input"

NextSer == Serialize

SpecSer == InitSer /\ [][NextSer]_vars

\* --------------------------------------------- vocabulary of the properties
Occurrences(search, k) == {i \in 1..Len(search) : search[i].key = k}
ValueOf(search, k) == search[CHOOSE i \in Occurrences(search, k) : TRUE].value
PairSet(search) == {<<search[i].key, search[i].value>> : i \in 1..Len(search)}
Without(search, k) == LET other(e) == e.key # k IN SelectSeq(search, other)

\* r is the strings written one after the other with sep between neighbours
RECURSIVE StartOf(_, _)
StartOf(strings, i) == IF i = 1 THEN 1 ELSE StartOf(strings, i - 1) + Len(strings[i - 1]) + 1
IsJoin(r, strings, sep) ==
    LET n == Len(strings)
    IN /\ Len(r) = IF n = 0 THEN 0 ELSE StartOf(strings, n) + Len(strings[n]) - 1
       /\ \A i \in 1..n :
            SubSeq(r, StartOf(strings, i), StartOf(strings, i) + Len(strings[i]) - 1) = strings[i]
       /\ \A i \in 1..(n - 1) : r[StartOf(strings, i + 1) - 1] = sep

\* r holds t as a contiguous piece
Contains(r, t) == \E i \in 1..(Len(r) - Len(t) + 1) : SubSeq(r, i, i + Len(t) - 1) = t

\* [<module>] <code>: <text>
Line(e) == <<"[">> \o e.module \o <<"]">> \o <<" ">> \o e.code \o <<":">> \o <<" ">> \o e.text
Lines(es) == [i \in 1..Len(es) |-> Line(es[i])]

\* the error entries of an envelope in the order the server returned them
ErrorEntries(body) == IF body.errors.shape = "array" THEN body.errors.list ELSE <<body.errors.object>>
HasErrors(body) == body.errors.shape # "absent"

NullOrFalse(v) == ~v.isArray /\ v.items[1] \in {PNull, PUndef, PBool(FALSE)}
AllStrings(v) == \A i \in 1..Len(v.items) : v.items[i].t = "string"
SomePipe(v) == \E i \in 1..Len(v.items) : \E j \in 1..Len(v.items[i].s) : v.items[i].s[j] = "|"
Texts(v) == [i \in 1..Len(v.items) |-> v.items[i].s]

\* --------------------------------------------------------------- properties

\* C1: a response whose errors field is present, as an array or as one object,
\* makes the call fail without a result, and the failure message is the
\* entries as "[module] code: text", joined by newlines in the server's order.
ErrorsFailTheCall ==
    \A c \in CallIds :
        (calls[c].received /\ HasErrors(calls[c].response)) =>
            /\ calls[c].pc = "rejected"
            /\ calls[c].result = NoResult
            /\ IsJoin(calls[c].message, Lines(ErrorEntries(calls[c].response)), LF)

ErrorsFailTheCallWitness ==
    \E c \in CallIds :
        /\ calls[c].received
        /\ calls[c].pc = "rejected"
        /\ calls[c].response.errors.shape = "array"
        /\ calls[c].response.errors.list = <<EntryB, EntryA>>

\* a single errors object fails the call like a one-element array
SingleErrorObjectWitness ==
    \E c \in CallIds :
        /\ calls[c].received
        /\ calls[c].pc = "rejected"
        /\ calls[c].response.errors.shape = "object"
        /\ calls[c].message = Line(EntryA)

\* C2: the serialized output holds format, formatversion and errorformat
\* exactly once each, with the values json, 2 and plaintext, whatever the
\* caller passed under those keys.
ReservedKeysFixed ==
    phase = "done" =>
        /\ \A k \in ReservedKeys : Cardinality(Occurrences(output, k)) = 1
        /\ ValueOf(output, "format") = <<"j", "s", "o", "n">>
        /\ ValueOf(output, "formatversion") = <<"2">>
        /\ ValueOf(output, "errorformat") = <<"p", "l", "a", "i", "n", "t", "e", "x", "t">>

ReservedKeysFixedWitness ==
    /\ phase = "done"
    /\ Occurrences(input, "format") # {}
    /\ Occurrences(input, "errorformat") # {}

\* C3: a key other than the reserved ones is in the output if and only if its
\* value is neither null, undefined nor false; the value true gives the empty
\* string; a key the caller did not pass is not in the output.
OmittedIffNullOrFalse ==
    phase = "done" =>
        /\ \A i \in 1..Len(input) :
             input[i].key \notin ReservedKeys =>
                /\ (Occurrences(output, input[i].key) # {}) <=> ~NullOrFalse(input[i].value)
                /\ input[i].value = Scalar(PBool(TRUE)) => ValueOf(output, input[i].key) = <<>>
        /\ \A j \in 1..Len(output) :
             output[j].key \in ReservedKeys \/ Occurrences(input, output[j].key) # {}

OmittedIffNullOrFalseWitness ==
    /\ phase = "done"
    /\ \E i \in 1..Len(input) : input[i].key = "titles" /\ input[i].value = Scalar(PBool(FALSE))
    /\ Occurrences(output, "titles") = {}

TrueIsEmptyWitness ==
    /\ phase = "done"
    /\ \E i \in 1..Len(input) : input[i].key = "titles" /\ input[i].value = Scalar(PBool(TRUE))
    /\ Occurrences(output, "titles") # {}

\* C4: a string or an array of strings none of which holds "|" is serialized
\* as the elements joined by "|" (the string itself); when one of them holds
\* "|" it is U+001F followed by all the elements joined by U+001F (by the
\* string itself); the choice is made once over all the elements.
DelimiterDecision ==
    phase = "done" =>
        \A i \in 1..Len(input) :
            (input[i].key = "titles" /\ AllStrings(input[i].value)) =>
                LET v == input[i].value
                    out == ValueOf(output, "titles")
                IN /\ Occurrences(output, "titles") # {}
                   /\ (~v.isArray /\ ~SomePipe(v)) => out = v.items[1].s
                   /\ (~v.isArray /\ SomePipe(v)) => out = <<US>> \o v.items[1].s
                   /\ (v.isArray /\ ~SomePipe(v)) => IsJoin(out, Texts(v), "|")
                   /\ (v.isArray /\ SomePipe(v)) =>
                        Len(out) > 0 /\ out[1] = US /\ IsJoin(Tail(out), Texts(v), US)

DelimiterDecisionWitness ==
    /\ phase = "done"
    /\ \E i \in 1..Len(input) :
         /\ input[i].key = "titles"
         /\ input[i].value = Array(<<PStr(<<"a">>), PStr(<<"a", "|", "b">>)>>)
    /\ Occurrences(output, "titles") # {}

\* C5: query sends exactly one GET whose parameters have action=query whatever
\* the caller passed as action, every other key as get serializes it, and the
\* three reserved keys; without errors it returns the query field alone, with
\* errors it fails with the message get fails with.
QueryForcesAction ==
    \A c \in CallIds :
        calls[c].kind = "query" =>
            /\ Len(calls[c].sent) = 1
            /\ calls[c].sent[1].method = "GET"
            /\ calls[c].sent[1].form = <<>>
            /\ LET sp == calls[c].sent[1].searchParams
               IN /\ Cardinality(Occurrences(sp, "action")) = 1
                  /\ ValueOf(sp, "action") = <<"q", "u", "e", "r", "y">>
                  /\ Without(sp, "action") = Without(createSearchParams(calls[c].params), "action")
                  /\ ValueOf(sp, "format") = <<"j", "s", "o", "n">>
                  /\ ValueOf(sp, "formatversion") = <<"2">>
                  /\ ValueOf(sp, "errorformat") = <<"p", "l", "a", "i", "n", "t", "e", "x", "t">>
            /\ (calls[c].received /\ ~HasErrors(calls[c].response)) =>
                  /\ calls[c].pc = "fulfilled"
                  /\ calls[c].result.tag = "payload"
                  /\ calls[c].result.body = NoBody
                  /\ calls[c].result.payload =
                        IF calls[c].response.query.present
                        THEN calls[c].response.query.value ELSE "undefined"
            /\ (calls[c].received /\ HasErrors(calls[c].response)) =>
                  /\ calls[c].pc = "rejected"
                  /\ IsJoin(calls[c].message, Lines(ErrorEntries(calls[c].response)), LF)

QueryForcesActionWitness ==
    \E c \in CallIds :
        /\ calls[c].kind = "query"
        /\ calls[c].params = ParamsIgnored
        /\ calls[c].pc = "fulfilled"
        /\ calls[c].response.query.present
        /\ calls[c].response.warnings.present
        /\ calls[c].result.payload = "pages"

\* C6: post sends in its form body the key/value pairs get sends in its query
\* string, and on the same envelope it logs, returns and fails as get does.
PostLikeGet ==
    \A c, d \in CallIds :
        (calls[c].kind = "get" /\ calls[d].kind = "post" /\ calls[c].params = calls[d].params) =>
            /\ Len(calls[d].sent) = 1
            /\ calls[d].sent[1].method = "POST"
            /\ calls[d].sent[1].searchParams = <<>>
            /\ calls[d].sent[1].url = calls[c].sent[1].url
            /\ PairSet(calls[d].sent[1].form) = PairSet(calls[c].sent[1].searchParams)
            /\ Len(calls[d].sent[1].form) = Cardinality(PairSet(calls[c].sent[1].searchParams))
            /\ (calls[c].received /\ calls[d].received /\ calls[c].response = calls[d].response) =>
                  /\ calls[d].pc = calls[c].pc
                  /\ calls[d].result = calls[c].result
                  /\ calls[d].message = calls[c].message
                  /\ calls[d].logged = calls[c].logged

PostLikeGetWitness ==
    \E c, d \in CallIds :
        /\ calls[c].kind = "get"
        /\ calls[d].kind = "post"
        /\ calls[c].params = ParamsReserved
        /\ calls[d].params = ParamsReserved
        /\ calls[c].received
        /\ calls[d].received
        /\ calls[c].response = calls[d].response
        /\ calls[d].response.warnings.present
        /\ HasErrors(calls[d].response)

\* C7: with warnings and no errors get and post return the parsed body as it
\* is, the warning lines having been written in the server's order; whether a
\* call fails depends on the errors alone, never on the warnings.
WarningStep ==
    \A c \in CallIds :
        (calls[c].pc = "awaiting" /\ calls'[c].received) =>
            LET body == calls'[c].response
                written == SubSeq(console', Len(console) + 1, Len(console'))
            IN /\ SubSeq(console', 1, Len(console)) = console
               /\ Len(written) = IF body.warnings.present THEN Len(body.warnings.list) ELSE 0
               /\ \A i \in 1..Len(written) :
                    written[i].level = "warn" /\ written[i].text = Line(body.warnings.list[i])
               /\ (calls'[c].pc = "rejected") <=> HasErrors(body)
               /\ (body.warnings.present /\ ~HasErrors(body) /\ calls[c].kind \in {"get", "post"}) =>
                    /\ calls'[c].pc = "fulfilled"
                    /\ calls'[c].result.tag = "body"
                    /\ calls'[c].result.body = body

WarningsAreNotFatal == [][WarningStep]_vars

WarningsAreNotFatalWitness ==
    \E c \in CallIds :
        /\ calls[c].kind = "post"
        /\ calls[c].pc = "fulfilled"
        /\ calls[c].response.warnings.list = <<EntryA, EntryB>>
        /\ calls[c].result.body = calls[c].response
        /\ Len(console) = 2
        /\ console[1].text = Line(EntryA)
        /\ console[2].text = Line(EntryB)

\* C8: an array's elements are converted by the scalar rules (null, undefined
\* and false give nothing), so the serialized value of an array of null,
\* undefined, false and other elements never holds the text null, undefined
\* or false.  No element of ElemPrims has such a text in its own string form.
ArrayElementsAsScalars ==
    phase = "done" =>
        \A i \in 1..Len(input) :
            (input[i].key = "titles" /\ input[i].value.isArray) =>
                /\ Occurrences(output, "titles") # {}
                /\ ~Contains(ValueOf(output, "titles"), <<"n", "u", "l", "l">>)
                /\ ~Contains(ValueOf(output, "titles"), <<"u", "n", "d", "e", "f", "i", "n", "e", "d">>)
                /\ ~Contains(ValueOf(output, "titles"), <<"f", "a", "l", "s", "e">>)

\* C9: a step of one call changes no other call; an outcome once reached
\* stays; every request goes to the client's endpoint, which never changes;
\* and a call fails on a parsed response exactly when its own response has
\* errors, with the result and message its own response gives.
OwnOutcome(c) ==
    /\ \A i \in 1..Len(calls[c].sent) : calls[c].sent[i].url = client.endpoint
    /\ calls[c].received =>
          /\ (calls[c].pc = "rejected") <=> HasErrors(calls[c].response)
          /\ (calls[c].pc = "fulfilled") <=> ~HasErrors(calls[c].response)
          /\ HasErrors(calls[c].response) =>
                IsJoin(calls[c].message, Lines(ErrorEntries(calls[c].response)), LF)
          /\ (~HasErrors(calls[c].response) /\ calls[c].kind # "query") =>
                calls[c].result.body = calls[c].response

IndependentStep ==
    /\ client.status = "ok" => client' = client
    /\ \A c \in CallIds :
         /\ calls'[c] # calls[c] => \A d \in CallIds \ {c} : calls'[d] = calls[d]
         /\ calls[c].pc \in {"fulfilled", "rejected"} => calls'[c] = calls[c]

CallsAreIndependent == [](\A c \in CallIds : OwnOutcome(c)) /\ [][IndependentStep]_vars

CallsAreIndependentWitness ==
    \E c, d \in CallIds :
        /\ c # d
        /\ calls[c].received /\ calls[c].pc = "rejected"
        /\ calls[d].received /\ calls[d].pc = "fulfilled"
        /\ calls[c].params # calls[d].params

\* C10: the constructor never throws, and when package.json is missing,
\* unreadable, unparsable or without the version fields the User-Agent is the
\* default string with the Unknown token.
MetadataComplete(f) ==
    f.exists /\ f.readable /\ f.parses /\ f.hasVersion /\ f.hasDependencies /\ f.hasGot

ConstructionAlwaysSucceeds ==
    /\ client.status # "threw"
    /\ (client.status = "ok" /\ ~MetadataComplete(file)) => client.userAgent = DefaultUserAgent

====
